---- MODULE Spec2Model ----
(***************************************************************************)
(* Model of types/author.go: the Owner factory GenerateOwner, the Author   *)
(* binary codec (encode / EncodeRLP / decode / DecodeRLP), the Author JSON *)
(* codec (MarshalJSON / UnmarshalJSON) and the AccountAuthorAction record. *)
(*                                                                         *)
(* Strings and byte slices are sequences of integers (a string is the      *)
(* sequence of its byte values: "0" = 48, "x" = 120, "A" = 65, "a" = 97).  *)
(* A Go pointer that may be nil is a sequence of length 0 or 1.  An error  *)
(* is a string, "" being the nil error.                                    *)
(***************************************************************************)
EXTENDS Integers, Sequences, FiniteSets

(***************************************************************************)
(* Bounds of the model.                                                    *)
(***************************************************************************)
\* longest input string handed to GenerateOwner
MaxLen == 4
\* AuthorType values drawn are 0..MaxTag (the type is uint8)
MaxTag == 3
\* small weights drawn are 0..MaxWeight
MaxWeight == 1
\* one weight whose RLP integer needs more than one byte
BigWeight == 300
\* longest string an Author's owner is generated from
MaxOwnerLen == 2
\* longest AuthorActions list
MaxActions == 3
\* widths of the fixed-size identity arrays (types outside author.go)
PubKeyLength == 2
AddressLength == 3

(***************************************************************************)
(* Program constants.                                                      *)
(***************************************************************************)
AccountNameType == 0
PubKeyType == 1
AddressType == 2

AddAuthor == 0
UpdateAuthor == 1
DeleteAuthor == 2

\* the characters input strings are built from: "0", "x", "A"
Alphabet == {48, 120, 65}
\* the string "0x"
Prefix0x == <<48, 120>>

RECURSIVE StringsUpTo(_)
StringsUpTo(n) ==
  IF n = 0 THEN {<<>>}
  ELSE LET shorter == StringsUpTo(n - 1)
       IN  shorter \cup {Append(s, ch) : s \in {t \in shorter : Len(t) = n - 1}, ch \in Alphabet}

Strings == StringsUpTo(MaxLen)

Weights == (0..MaxWeight) \cup {BigWeight}

\* the tags drawn: the three known ones, the next unknown ones, the largest uint8
AuthorTypes == (0..MaxTag) \cup {255}

(***************************************************************************)
(* Standard library: strings.HasPrefix, strings.Split, hex.DecodeString.   *)
(***************************************************************************)
HasPrefix(s, prefix) ==
  Len(s) >= Len(prefix) /\ SubSeq(s, 1, Len(prefix)) = prefix

\* strings.Index, 1-based; 0 when sep does not occur in s
Index(s, sep) ==
  LET hits == {i \in 1..(Len(s) - Len(sep) + 1) : SubSeq(s, i, i + Len(sep) - 1) = sep}
  IN  IF hits = {} THEN 0 ELSE CHOOSE i \in hits : \A k \in hits : i <= k

\* strings.Split for a non-empty separator
RECURSIVE Split(_, _)
Split(s, sep) ==
  LET i == Index(s, sep)
  IN  IF i = 0 THEN <<s>>
      ELSE <<SubSeq(s, 1, i - 1)>> \o Split(SubSeq(s, i + Len(sep), Len(s)), sep)

\* encoding/hex reverseHexTable: the digit's value, 255 for a non-hex byte
fromHexChar(ch) ==
  IF ch >= 48 /\ ch <= 57 THEN ch - 48
  ELSE IF ch >= 97 /\ ch <= 102 THEN ch - 87
  ELSE IF ch >= 65 /\ ch <= 70 THEN ch - 55
  ELSE 255

\* encoding/hex Decode: the bytes decoded before the first error, and the error
RECURSIVE hexDecode(_, _, _)
hexDecode(src, j, acc) ==
  IF j <= Len(src)
  THEN LET hi == fromHexChar(src[j - 1])
           lo == fromHexChar(src[j])
       IN  IF hi > 15 THEN [bytes |-> acc, err |-> "encoding/hex: invalid byte"]
           ELSE IF lo > 15 THEN [bytes |-> acc, err |-> "encoding/hex: invalid byte"]
           ELSE hexDecode(src, j + 2, Append(acc, hi * 16 + lo))
  ELSE IF Len(src) % 2 = 1
       THEN IF fromHexChar(src[j - 1]) > 15
            THEN [bytes |-> acc, err |-> "encoding/hex: invalid byte"]
            ELSE [bytes |-> acc, err |-> "encoding/hex: odd length hex string"]
       ELSE [bytes |-> acc, err |-> ""]

\* hex.DecodeString: returns src[:n] and the error
DecodeString(s) == hexDecode(s, 2, <<>>)

(***************************************************************************)
(* Owner values.  Name, PubKey and Address are declared outside author.go: *)
(* a Name is its string, a PubKey and an Address are fixed-size byte       *)
(* arrays filled right-aligned by SetBytes.                                *)
(***************************************************************************)
NilOwner == [variant |-> "nil", val |-> <<>>]
\* an implementation of Owner that author.go does not know
ForeignOwner == [variant |-> "Foreign", val |-> <<>>]

Name(s) == [variant |-> "Name", val |-> s]

Zeros(n) == [i \in 1..n |-> 0]

\* SetBytes on a zero array of the given width: crop from the left, right-align
SetBytes(width, bytes) ==
  LET cropped == IF Len(bytes) > width
                 THEN SubSeq(bytes, Len(bytes) - width + 1, Len(bytes))
                 ELSE bytes
  IN  Zeros(width - Len(cropped)) \o cropped

PubKey(bytes) == [variant |-> "PubKey", val |-> SetBytes(PubKeyLength, bytes)]
Address(bytes) == [variant |-> "Address", val |-> SetBytes(AddressLength, bytes)]

KnownVariants == {"Name", "PubKey", "Address"}

(***************************************************************************)
(* GenerateOwner (author.go:50-76).                                        *)
(***************************************************************************)
\* the text the closure f hands to hex.DecodeString (formatStr, lines 52-56)
formatStr(in) ==
  IF HasPrefix(in, Prefix0x) THEN Split(in, Prefix0x)[2] ELSE in

\* a variant of f that leaves the prefix in place
fKeepPrefix(in) == DecodeString(in).bytes

\* a variant of f that returns no bytes when hex decoding reports an error
fNilOnError(in) ==
  LET d == DecodeString(formatStr(in)) IN IF d.err = "" THEN d.bytes ELSE <<>>

\* the closure f (lines 51-59): the error of hex.DecodeString is dropped
f(in) == DecodeString(formatStr(in)).bytes

GenerateOwner(author, at) ==
  IF at = AccountNameType THEN Name(author)
  ELSE IF at = PubKeyType THEN PubKey(f(author))
  ELSE IF at = AddressType THEN Address(f(author))
  ELSE NilOwner

\* NewAuthor (lines 84-86)
NewAuthor(owner, weight) == [Owner |-> owner, Weight |-> weight]

(***************************************************************************)
(* The rlp package (imported, not part of author.go): canonical RLP of     *)
(* byte strings, unsigned integers and lists.                              *)
(***************************************************************************)
\* F applied to the value of v, v evaluated once
Bind(v, F(_)) == CHOOSE r \in {F(x) : x \in {v}} : TRUE

\* minimal big-endian bytes of n; empty for 0
RECURSIVE putint(_)
putint(n) == IF n = 0 THEN <<>> ELSE putint(n \div 256) \o <<n % 256>>

RECURSIVE readint(_, _)
readint(bytes, acc) ==
  IF bytes = <<>> THEN acc ELSE readint(Tail(bytes), acc * 256 + Head(bytes))

\* a byte string, a string or a byte array
rlpEncodeString(b) ==
  IF Len(b) = 1 /\ b[1] <= 127 THEN b
  ELSE IF Len(b) < 56 THEN <<128 + Len(b)>> \o b
  ELSE LET l == putint(Len(b)) IN <<183 + Len(l)>> \o l \o b

rlpEncodeUint(n) ==
  IF n = 0 THEN <<128>>
  ELSE IF n < 128 THEN <<n>>
  ELSE LET l == putint(n) IN <<128 + Len(l)>> \o l

rlpEncodeList(payload) ==
  IF Len(payload) < 56 THEN <<192 + Len(payload)>> \o payload
  ELSE LET l == putint(Len(payload)) IN <<247 + Len(l)>> \o l \o payload

NoItem(e) == [err |-> e, kind |-> "", content |-> <<>>, raw |-> <<>>, rest |-> <<>>]

\* the size of a long-form item: lenlen bytes after the first, canonical
longItem(b, kind, lenlen) ==
  IF Len(b) < 1 + lenlen THEN NoItem("unexpected EOF")
  ELSE LET sb == SubSeq(b, 2, 1 + lenlen)
           size == readint(sb, 0)
       IN  IF sb[1] = 0 THEN NoItem("rlp: non-canonical size information")
           ELSE IF size < 56 THEN NoItem("rlp: non-canonical size information")
           ELSE IF size > Len(b) - 1 - lenlen THEN NoItem("rlp: value size exceeds available input length")
           ELSE [err |-> "", kind |-> kind,
                 content |-> SubSeq(b, 2 + lenlen, 1 + lenlen + size),
                 raw |-> SubSeq(b, 1, 1 + lenlen + size),
                 rest |-> SubSeq(b, 2 + lenlen + size, Len(b))]

shortItem(b, kind, size) ==
  IF size > Len(b) - 1 THEN NoItem("rlp: value size exceeds available input length")
  ELSE [err |-> "", kind |-> kind,
        content |-> SubSeq(b, 2, 1 + size),
        raw |-> SubSeq(b, 1, 1 + size),
        rest |-> SubSeq(b, 2 + size, Len(b))]

\* Stream.readKind and the read of the item it announces
rlpItem(b) ==
  IF b = <<>> THEN NoItem("EOF")
  ELSE IF b[1] < 128
       THEN [err |-> "", kind |-> "Byte", content |-> <<b[1]>>, raw |-> <<b[1]>>, rest |-> Tail(b)]
  ELSE IF b[1] < 184 THEN shortItem(b, "String", b[1] - 128)
  ELSE IF b[1] < 192 THEN longItem(b, "String", b[1] - 183)
  ELSE IF b[1] < 248 THEN shortItem(b, "List", b[1] - 192)
  ELSE longItem(b, "List", b[1] - 247)

\* Stream.uint: an unsigned integer of at most maxbytes bytes
decodeUint(item, maxbytes) ==
  IF item.err # "" THEN [err |-> item.err, val |-> 0]
  ELSE IF item.kind = "Byte"
       THEN IF item.content[1] = 0
            THEN [err |-> "rlp: non-canonical integer (leading zero bytes)", val |-> 0]
            ELSE [err |-> "", val |-> item.content[1]]
  ELSE IF item.kind = "String"
       THEN IF Len(item.content) > maxbytes THEN [err |-> "rlp: uint overflow", val |-> 0]
            ELSE IF Len(item.content) = 0 THEN [err |-> "", val |-> 0]
            ELSE IF item.content[1] = 0
                 THEN [err |-> "rlp: non-canonical integer (leading zero bytes)", val |-> 0]
            ELSE IF Len(item.content) = 1 /\ item.content[1] < 128
                 THEN [err |-> "rlp: non-canonical size information", val |-> 0]
            ELSE [err |-> "", val |-> readint(item.content, 0)]
  ELSE [err |-> "rlp: expected input string or byte", val |-> 0]

\* decodeString (Stream.Bytes)
decodeString(item) ==
  IF item.err # "" THEN [err |-> item.err, val |-> <<>>]
  ELSE IF item.kind = "Byte" THEN [err |-> "", val |-> item.content]
  ELSE IF item.kind = "String"
       THEN IF Len(item.content) = 1 /\ item.content[1] < 128
            THEN [err |-> "rlp: non-canonical size information", val |-> <<>>]
            ELSE [err |-> "", val |-> item.content]
  ELSE [err |-> "rlp: expected input string or byte", val |-> <<>>]

\* decodeByteArray into an array of the given width
decodeByteArray(item, width) ==
  IF item.err # "" THEN [err |-> item.err, val |-> <<>>]
  ELSE IF item.kind = "Byte"
       THEN IF width = 0 THEN [err |-> "rlp: input string too long", val |-> <<>>]
            ELSE IF width > 1 THEN [err |-> "rlp: input string too short", val |-> <<>>]
            ELSE [err |-> "", val |-> item.content]
  ELSE IF item.kind = "String"
       THEN IF width < Len(item.content) THEN [err |-> "rlp: input string too long", val |-> <<>>]
            ELSE IF width > Len(item.content) THEN [err |-> "rlp: input string too short", val |-> <<>>]
            ELSE IF Len(item.content) = 1 /\ item.content[1] < 128
                 THEN [err |-> "rlp: non-canonical size information", val |-> <<>>]
            ELSE [err |-> "", val |-> item.content]
  ELSE [err |-> "rlp: expected input string or byte", val |-> <<>>]

\* rlp.DecodeBytes: one value, then no input may be left
noTrailing(item, r) ==
  IF r.err # "" THEN r
  ELSE IF item.rest # <<>> THEN [err |-> "rlp: input contains more than one value", val |-> <<>>]
  ELSE r

DecodeBytesName(b) == LET it == rlpItem(b) IN noTrailing(it, decodeString(it))
DecodeBytesPubKey(b) == LET it == rlpItem(b) IN noTrailing(it, decodeByteArray(it, PubKeyLength))
DecodeBytesAddress(b) == LET it == rlpItem(b) IN noTrailing(it, decodeByteArray(it, AddressLength))

\* rlp.EncodeToBytes of a Name, a PubKey or an Address
EncodeToBytes(val) == rlpEncodeString(val)

NoStorageAuthor == [Type |-> 0, DataRaw |-> <<>>, Weight |-> 0]

\* rlp.Encode of a StorageAuthor: the list of Type, DataRaw (verbatim), Weight
rlpEncodeStorageAuthor(sa) ==
  rlpEncodeList(rlpEncodeUint(sa.Type) \o sa.DataRaw \o rlpEncodeUint(sa.Weight))

\* Stream.Decode into a StorageAuthor: the next item of the stream
streamDecodeStorageAuthor(stream) ==
  LET bad(e) == [err |-> e, sa |-> NoStorageAuthor, rest |-> stream]
  IN  Bind(rlpItem(stream), LAMBDA it :
        IF it.err # "" THEN bad(it.err)
        ELSE IF it.kind # "List" THEN bad("rlp: expected input list")
        ELSE IF it.content = <<>> THEN bad("rlp: too few elements")
        ELSE Bind(rlpItem(it.content), LAMBDA i1 :
          Bind(decodeUint(i1, 1), LAMBDA ty :
            IF ty.err # "" THEN bad(ty.err)
            ELSE IF i1.rest = <<>> THEN bad("rlp: too few elements")
            ELSE Bind(rlpItem(i1.rest), LAMBDA i2 :
              IF i2.err # "" THEN bad(i2.err)
              ELSE IF i2.rest = <<>> THEN bad("rlp: too few elements")
              ELSE Bind(rlpItem(i2.rest), LAMBDA i3 :
                Bind(decodeUint(i3, 8), LAMBDA wt :
                  IF wt.err # "" THEN bad(wt.err)
                  ELSE IF i3.rest # <<>> THEN bad("rlp: input list has too many elements")
                  ELSE [err |-> "", rest |-> it.rest,
                        sa |-> [Type |-> ty.val, DataRaw |-> i2.raw, Weight |-> wt.val]]))))))

(***************************************************************************)
(* Author binary codec (author.go:92-173).  An Author is the record        *)
(* [Owner, Weight]; a method with a pointer receiver returns the receiver  *)
(* as the call leaves it.                                                  *)
(***************************************************************************)
FreshAuthor == [Owner |-> NilOwner, Weight |-> 0]

\* encode with the PubKey and Address tags exchanged
encodeSwappedTags(a) ==
  IF a.Owner.variant = "Name"
  THEN [sa |-> <<[Type |-> AccountNameType, DataRaw |-> EncodeToBytes(a.Owner.val), Weight |-> a.Weight]>>, err |-> ""]
  ELSE IF a.Owner.variant = "PubKey"
  THEN [sa |-> <<[Type |-> AddressType, DataRaw |-> EncodeToBytes(a.Owner.val), Weight |-> a.Weight]>>, err |-> ""]
  ELSE IF a.Owner.variant = "Address"
  THEN [sa |-> <<[Type |-> PubKeyType, DataRaw |-> EncodeToBytes(a.Owner.val), Weight |-> a.Weight]>>, err |-> ""]
  ELSE [sa |-> <<>>, err |-> "author encode failed"]

\* encode that emits an empty Name record for an Owner it does not know
encodeDefaultName(a) ==
  IF a.Owner.variant = "PubKey"
  THEN [sa |-> <<[Type |-> PubKeyType, DataRaw |-> EncodeToBytes(a.Owner.val), Weight |-> a.Weight]>>, err |-> ""]
  ELSE IF a.Owner.variant = "Address"
  THEN [sa |-> <<[Type |-> AddressType, DataRaw |-> EncodeToBytes(a.Owner.val), Weight |-> a.Weight]>>, err |-> ""]
  ELSE [sa |-> <<[Type |-> AccountNameType, DataRaw |-> EncodeToBytes(a.Owner.val), Weight |-> a.Weight]>>, err |-> ""]

\* Author.encode (lines 100-134): the type switch on a.Owner
encode(a) ==
  IF a.Owner.variant = "Name"
  THEN [sa |-> <<[Type |-> AccountNameType, DataRaw |-> EncodeToBytes(a.Owner.val), Weight |-> a.Weight]>>, err |-> ""]
  ELSE IF a.Owner.variant = "PubKey"
  THEN [sa |-> <<[Type |-> PubKeyType, DataRaw |-> EncodeToBytes(a.Owner.val), Weight |-> a.Weight]>>, err |-> ""]
  ELSE IF a.Owner.variant = "Address"
  THEN [sa |-> <<[Type |-> AddressType, DataRaw |-> EncodeToBytes(a.Owner.val), Weight |-> a.Weight]>>, err |-> ""]
  ELSE [sa |-> <<>>, err |-> "author encode failed"]

\* Author.EncodeRLP (lines 92-98): nothing is written when encode fails
EncodeRLP(a, w) ==
  LET r == encode(a)
  IN  IF r.err # "" THEN [w |-> w, err |-> r.err]
      ELSE [w |-> w \o rlpEncodeStorageAuthor(r.sa[1]), err |-> ""]

\* decode whose switch falls through to success on an unknown tag
decodeDefaultOk(a, sa) ==
  IF sa.Type = AccountNameType
  THEN LET d == DecodeBytesName(sa.DataRaw)
       IN  IF d.err # "" THEN [a |-> a, err |-> d.err]
           ELSE [a |-> [Owner |-> Name(d.val), Weight |-> sa.Weight], err |-> ""]
  ELSE IF sa.Type = PubKeyType
  THEN LET d == DecodeBytesPubKey(sa.DataRaw)
       IN  IF d.err # "" THEN [a |-> a, err |-> d.err]
           ELSE [a |-> [Owner |-> [variant |-> "PubKey", val |-> d.val], Weight |-> sa.Weight], err |-> ""]
  ELSE IF sa.Type = AddressType
  THEN LET d == DecodeBytesAddress(sa.DataRaw)
       IN  IF d.err # "" THEN [a |-> a, err |-> d.err]
           ELSE [a |-> [Owner |-> [variant |-> "Address", val |-> d.val], Weight |-> sa.Weight], err |-> ""]
  ELSE [a |-> a, err |-> ""]

\* decode that stores the weight before it decodes the payload
decodeWeightFirst(a, sa) ==
  IF sa.Type = AccountNameType
  THEN LET d == DecodeBytesName(sa.DataRaw)
       IN  IF d.err # "" THEN [a |-> [a EXCEPT !.Weight = sa.Weight], err |-> d.err]
           ELSE [a |-> [Owner |-> Name(d.val), Weight |-> sa.Weight], err |-> ""]
  ELSE IF sa.Type = PubKeyType
  THEN LET d == DecodeBytesPubKey(sa.DataRaw)
       IN  IF d.err # "" THEN [a |-> [a EXCEPT !.Weight = sa.Weight], err |-> d.err]
           ELSE [a |-> [Owner |-> [variant |-> "PubKey", val |-> d.val], Weight |-> sa.Weight], err |-> ""]
  ELSE IF sa.Type = AddressType
  THEN LET d == DecodeBytesAddress(sa.DataRaw)
       IN  IF d.err # "" THEN [a |-> [a EXCEPT !.Weight = sa.Weight], err |-> d.err]
           ELSE [a |-> [Owner |-> [variant |-> "Address", val |-> d.val], Weight |-> sa.Weight], err |-> ""]
  ELSE [a |-> a, err |-> "author decode failed"]

\* decode that reads a PubKey payload into an Address
decodePubKeyAsAddress(a, sa) ==
  IF sa.Type = AccountNameType
  THEN LET d == DecodeBytesName(sa.DataRaw)
       IN  IF d.err # "" THEN [a |-> a, err |-> d.err]
           ELSE [a |-> [Owner |-> Name(d.val), Weight |-> sa.Weight], err |-> ""]
  ELSE IF sa.Type = PubKeyType
  THEN LET d == DecodeBytesPubKey(sa.DataRaw)
       IN  IF d.err # "" THEN [a |-> a, err |-> d.err]
           ELSE [a |-> [Owner |-> Address(d.val), Weight |-> sa.Weight], err |-> ""]
  ELSE IF sa.Type = AddressType
  THEN LET d == DecodeBytesAddress(sa.DataRaw)
       IN  IF d.err # "" THEN [a |-> a, err |-> d.err]
           ELSE [a |-> [Owner |-> [variant |-> "Address", val |-> d.val], Weight |-> sa.Weight], err |-> ""]
  ELSE [a |-> a, err |-> "author decode failed"]

\* Author.decode (lines 145-173): Owner and Weight are assigned only after the
\* payload decoded
decode(a, sa) ==
  IF sa.Type = AccountNameType
  THEN LET d == DecodeBytesName(sa.DataRaw)
       IN  IF d.err # "" THEN [a |-> a, err |-> d.err]
           ELSE [a |-> [Owner |-> Name(d.val), Weight |-> sa.Weight], err |-> ""]
  ELSE IF sa.Type = PubKeyType
  THEN LET d == DecodeBytesPubKey(sa.DataRaw)
       IN  IF d.err # "" THEN [a |-> a, err |-> d.err]
           ELSE [a |-> [Owner |-> [variant |-> "PubKey", val |-> d.val], Weight |-> sa.Weight], err |-> ""]
  ELSE IF sa.Type = AddressType
  THEN LET d == DecodeBytesAddress(sa.DataRaw)
       IN  IF d.err # "" THEN [a |-> a, err |-> d.err]
           ELSE [a |-> [Owner |-> [variant |-> "Address", val |-> d.val], Weight |-> sa.Weight], err |-> ""]
  ELSE [a |-> a, err |-> "author decode failed"]

\* DecodeRLP with a value receiver: the decoded Author is lost
DecodeRLPValueReceiver(a, stream) ==
  Bind(streamDecodeStorageAuthor(stream), LAMBDA r :
    IF r.err # "" THEN [a |-> a, err |-> r.err, sa |-> <<>>, rest |-> r.rest]
    ELSE Bind(decode(a, r.sa), LAMBDA d :
           [a |-> a, err |-> d.err, sa |-> <<r.sa>>, rest |-> r.rest]))

\* Author.DecodeRLP (lines 136-143): the envelope is read first
DecodeRLP(a, stream) ==
  Bind(streamDecodeStorageAuthor(stream), LAMBDA r :
    IF r.err # "" THEN [a |-> a, err |-> r.err, sa |-> <<>>, rest |-> r.rest]
    ELSE Bind(decode(a, r.sa), LAMBDA d :
           [a |-> d.a, err |-> d.err, sa |-> <<r.sa>>, rest |-> r.rest]))

(***************************************************************************)
(* Author JSON codec (author.go:175-210).  String, HexToPubKey and         *)
(* HexToAddress belong to the identity types, outside author.go.           *)
(***************************************************************************)
hexDigit(n) == IF n < 10 THEN 48 + n ELSE 87 + n

RECURSIVE hexEncode(_)
hexEncode(bytes) ==
  IF bytes = <<>> THEN <<>>
  ELSE <<hexDigit(Head(bytes) \div 16), hexDigit(Head(bytes) % 16)>> \o hexEncode(Tail(bytes))

\* Owner.String(): a Name verbatim, a PubKey and an Address as 0x and hex digits
String(o) ==
  IF o.variant = "Name" THEN o.val ELSE Prefix0x \o hexEncode(o.val)

\* FromHex: an optional 0x, an odd number of digits padded with a leading 0
FromHex(s) ==
  LET t == IF HasPrefix(s, Prefix0x) THEN SubSeq(s, 3, Len(s)) ELSE s
      u == IF Len(t) % 2 = 1 THEN <<48>> \o t ELSE t
  IN  DecodeString(u).bytes

HexToPubKey(s) == PubKey(FromHex(s))
HexToAddress(s) == Address(FromHex(s))

\* json.Marshal of an AuthorJSON: the exported fields OwnerStr ("owner") and
\* Weight ("weight"); the unexported field authorType is not written
jsonMarshal(aj) == <<[owner |-> aj.OwnerStr, weight |-> aj.Weight]>>

\* json.Unmarshal into a zero AuthorJSON: the exported fields are set, the
\* unexported authorType keeps its zero value
jsonUnmarshal(data) ==
  IF data = <<>>
  THEN [err |-> "unexpected end of JSON input",
        aj |-> [authorType |-> 0, OwnerStr |-> <<>>, Weight |-> 0]]
  ELSE [err |-> "",
        aj |-> [authorType |-> 0, OwnerStr |-> data[1].owner, Weight |-> data[1].weight]]

\* Author.MarshalJSON (lines 181-191)
MarshalJSON(a) ==
  IF a.Owner.variant = "Name"
  THEN [data |-> jsonMarshal([authorType |-> AccountNameType, OwnerStr |-> String(a.Owner), Weight |-> a.Weight]), err |-> ""]
  ELSE IF a.Owner.variant = "PubKey"
  THEN [data |-> jsonMarshal([authorType |-> PubKeyType, OwnerStr |-> String(a.Owner), Weight |-> a.Weight]), err |-> ""]
  ELSE IF a.Owner.variant = "Address"
  THEN [data |-> jsonMarshal([authorType |-> AddressType, OwnerStr |-> String(a.Owner), Weight |-> a.Weight]), err |-> ""]
  ELSE [data |-> <<>>, err |-> "Author marshal failed"]

\* Author.UnmarshalJSON (lines 193-210): the switch on aj.authorType; an
\* unknown tag leaves the receiver as it is and returns nil
UnmarshalJSON(a, data) ==
  LET r == jsonUnmarshal(data)
      aj == r.aj
  IN  IF r.err # "" THEN [a |-> a, err |-> r.err]
      ELSE IF aj.authorType = AccountNameType
      THEN [a |-> [Owner |-> Name(aj.OwnerStr), Weight |-> aj.Weight], err |-> ""]
      ELSE IF aj.authorType = PubKeyType
      THEN [a |-> [Owner |-> HexToPubKey(aj.OwnerStr), Weight |-> aj.Weight], err |-> ""]
      ELSE IF aj.authorType = AddressType
      THEN [a |-> [Owner |-> HexToAddress(aj.OwnerStr), Weight |-> aj.Weight], err |-> ""]
      ELSE [a |-> a, err |-> ""]

(***************************************************************************)
(* AuthorAction and AccountAuthorAction (author.go:17-26).  They have no   *)
(* codec of their own: rlp encodes a struct as the list of its fields, a   *)
(* slice as the list of its elements, and a *Author through EncodeRLP and  *)
(* DecodeRLP.                                                              *)
(***************************************************************************)
rlpEncodeAuthorAction(act) ==
  LET e == EncodeRLP(act.Author, <<>>)
  IN  IF e.err # "" THEN [bytes |-> <<>>, err |-> e.err]
      ELSE [bytes |-> rlpEncodeList(rlpEncodeUint(act.ActionType) \o e.w), err |-> ""]

RECURSIVE rlpEncodeActions(_)
rlpEncodeActions(acts) ==
  IF acts = <<>> THEN [bytes |-> <<>>, err |-> ""]
  ELSE LET h == rlpEncodeAuthorAction(Head(acts))
           t == rlpEncodeActions(Tail(acts))
       IN  IF h.err # "" THEN h
           ELSE IF t.err # "" THEN t
           ELSE [bytes |-> h.bytes \o t.bytes, err |-> ""]

\* rlp.EncodeToBytes of an AccountAuthorAction
rlpEncodeAccount(acct) ==
  LET acts == rlpEncodeActions(acct.AuthorActions)
  IN  IF acts.err # "" THEN [bytes |-> <<>>, err |-> acts.err]
      ELSE [bytes |-> rlpEncodeList(rlpEncodeUint(acct.Threshold)
                                      \o rlpEncodeUint(acct.UpdateAuthorThreshold)
                                      \o rlpEncodeList(acts.bytes)),
            err |-> ""]

NoAction == [ActionType |-> 0, Author |-> FreshAuthor]

\* one AuthorAction read from the front of a list's content
rlpDecodeAuthorAction(content) ==
  LET bad(e) == [err |-> e, act |-> NoAction, rest |-> <<>>]
  IN  Bind(rlpItem(content), LAMBDA it :
        IF it.err # "" THEN bad(it.err)
        ELSE IF it.kind # "List" THEN bad("rlp: expected input list")
        ELSE IF it.content = <<>> THEN bad("rlp: too few elements")
        ELSE Bind(rlpItem(it.content), LAMBDA i1 :
          Bind(decodeUint(i1, 8), LAMBDA ty :
            IF ty.err # "" THEN bad(ty.err)
            ELSE IF i1.rest = <<>> THEN bad("rlp: too few elements")
            ELSE Bind(DecodeRLP(FreshAuthor, i1.rest), LAMBDA au :
              IF au.err # "" THEN bad(au.err)
              ELSE IF au.rest # <<>> THEN bad("rlp: input list has too many elements")
              ELSE [err |-> "", act |-> [ActionType |-> ty.val, Author |-> au.a],
                    rest |-> it.rest]))))

RECURSIVE rlpDecodeActions(_, _)
rlpDecodeActions(content, acc) ==
  IF content = <<>> THEN [err |-> "", acts |-> acc]
  ELSE Bind(rlpDecodeAuthorAction(content), LAMBDA r :
         IF r.err # "" THEN [err |-> r.err, acts |-> <<>>]
         ELSE rlpDecodeActions(r.rest, Append(acc, r.act)))

NoAccount == [Threshold |-> 0, UpdateAuthorThreshold |-> 0, AuthorActions |-> <<>>]

\* rlp.DecodeBytes into an AccountAuthorAction
rlpDecodeAccount(bytes) ==
  LET bad(e) == [err |-> e, acct |-> NoAccount]
  IN  Bind(rlpItem(bytes), LAMBDA it :
        IF it.err # "" THEN bad(it.err)
        ELSE IF it.kind # "List" THEN bad("rlp: expected input list")
        ELSE IF it.content = <<>> THEN bad("rlp: too few elements")
        ELSE Bind(rlpItem(it.content), LAMBDA i1 :
          Bind(decodeUint(i1, 8), LAMBDA th :
            IF th.err # "" THEN bad(th.err)
            ELSE IF i1.rest = <<>> THEN bad("rlp: too few elements")
            ELSE Bind(rlpItem(i1.rest), LAMBDA i2 :
              Bind(decodeUint(i2, 8), LAMBDA up :
                IF up.err # "" THEN bad(up.err)
                ELSE IF i2.rest = <<>> THEN bad("rlp: too few elements")
                ELSE Bind(rlpItem(i2.rest), LAMBDA i3 :
                  IF i3.err # "" THEN bad(i3.err)
                  ELSE IF i3.kind # "List" THEN bad("rlp: expected input list")
                  ELSE Bind(rlpDecodeActions(i3.content, <<>>), LAMBDA as :
                    IF as.err # "" THEN bad(as.err)
                    ELSE IF i3.rest # <<>> THEN bad("rlp: input list has too many elements")
                    ELSE IF it.rest # <<>> THEN bad("rlp: input contains more than one value")
                    ELSE [err |-> "",
                          acct |-> [Threshold |-> th.val, UpdateAuthorThreshold |-> up.val,
                                    AuthorActions |-> as.acts]])))))))

(***************************************************************************)
(* The values the calls are made with.                                     *)
(***************************************************************************)
\* the owners Authors are built from: every owner GenerateOwner makes of a
\* short string, and one foreign implementation
Owners ==
  {GenerateOwner(s, at) : s \in StringsUpTo(MaxOwnerLen), at \in AuthorTypes}
    \cup {ForeignOwner}

\* payloads of StorageAuthors handed to decode: well-formed ones of each
\* identity type and malformed ones
RawSamples ==
  { EncodeToBytes(<<65>>),
    EncodeToBytes(<<65, 120>>),
    EncodeToBytes(SetBytes(PubKeyLength, <<170>>)),
    EncodeToBytes(SetBytes(AddressLength, <<10, 160>>)),
    <<>>,
    <<129, 10>>,
    <<192>>,
    <<130, 170>>,
    <<65, 65>> }

StorageAuthors ==
  [Type : AuthorTypes, DataRaw : RawSamples, Weight : {0, BigWeight}]

\* the envelopes of these StorageAuthors, whole, cut short and not a list
Streams ==
  LET whole == {rlpEncodeStorageAuthor(s) : s \in StorageAuthors}
  IN  whole \cup {SubSeq(e, 1, Len(e) - 1) : e \in whole} \cup {<<>>, <<128>>}

\* the Authors AuthorActions carry: one of each known variant
ActionAuthors ==
  { NewAuthor(GenerateOwner(<<65>>, AccountNameType), 1),
    NewAuthor(GenerateOwner(<<65, 65>>, PubKeyType), BigWeight),
    NewAuthor(GenerateOwner(<<48, 120, 48, 65>>, AddressType), 0) }

AuthorActionTypes == {AddAuthor, UpdateAuthor, DeleteAuthor}

AuthorActionsSet == [ActionType : AuthorActionTypes, Author : ActionAuthors]

RECURSIVE ActionListsUpTo(_)
ActionListsUpTo(n) ==
  IF n = 0 THEN {<<>>}
  ELSE LET shorter == ActionListsUpTo(n - 1)
       IN  shorter \cup {Append(l, x) : l \in {t \in shorter : Len(t) = n - 1}, x \in AuthorActionsSet}

Thresholds == {0, BigWeight}

VARIABLES pc, call, owner, a, sa, w, err, b, data, acct, acctOut

vars == <<pc, call, owner, a, sa, w, err, b, data, acct, acctOut>>

NoCall == [author |-> <<>>, at |-> 0, hexIn |-> <<>>]

Init ==
  /\ pc = "start"
  /\ call = NoCall
  /\ owner = NilOwner
  /\ a = FreshAuthor
  /\ sa = <<>>
  /\ w = <<>>
  /\ err = ""
  /\ b = FreshAuthor
  /\ data = <<>>
  /\ acct = NoAccount
  /\ acctOut = NoAccount

\* GenerateOwner(author, at); hexIn is the text f hands to hex.DecodeString
CallGenerateOwner ==
  /\ pc = "start"
  /\ \E author \in Strings, at \in AuthorTypes :
       /\ call' = [author |-> author, at |-> at,
                   hexIn |-> IF at \in {PubKeyType, AddressType}
                             THEN <<formatStr(author)>> ELSE <<>>]
       /\ owner' = GenerateOwner(author, at)
  /\ pc' = "generated"
  /\ UNCHANGED <<a, sa, w, err, b, data, acct, acctOut>>

\* NewAuthor(owner, weight)
CallNewAuthor ==
  /\ pc = "start"
  /\ \E o \in Owners, weight \in Weights : a' = NewAuthor(o, weight)
  /\ pc' = "constructed"
  /\ UNCHANGED <<call, owner, sa, w, err, b, data, acct, acctOut>>

\* a.encode()
CallEncode ==
  /\ pc = "constructed"
  /\ sa' = encode(a).sa
  /\ err' = encode(a).err
  /\ pc' = "encoded"
  /\ UNCHANGED <<call, owner, a, w, b, data, acct, acctOut>>

\* b.decode(sa) on the StorageAuthor encode returned, b a fresh Author
CallDecode ==
  /\ pc = "encoded"
  /\ err = ""
  /\ b' = decode(b, sa[1]).a
  /\ err' = decode(b, sa[1]).err
  /\ pc' = "decoded"
  /\ UNCHANGED <<call, owner, a, sa, w, data, acct, acctOut>>

\* a.EncodeRLP(w), w an empty buffer
CallEncodeRLP ==
  /\ pc = "constructed"
  /\ w' = EncodeRLP(a, w).w
  /\ err' = EncodeRLP(a, w).err
  /\ pc' = "written"
  /\ UNCHANGED <<call, owner, a, sa, b, data, acct, acctOut>>

\* b.DecodeRLP(s) on a stream over the bytes EncodeRLP wrote, b a fresh Author
CallDecodeRLP ==
  /\ pc = "written"
  /\ err = ""
  /\ b' = DecodeRLP(b, w).a
  /\ err' = DecodeRLP(b, w).err
  /\ sa' = DecodeRLP(b, w).sa
  /\ pc' = "read"
  /\ UNCHANGED <<call, owner, a, w, data, acct, acctOut>>

\* b.decode(sa) on any StorageAuthor, b fresh or holding a decoded Author
CallDecodeAny ==
  /\ pc \in {"start", "decoded"}
  /\ \E s \in StorageAuthors :
       /\ sa' = <<s>>
       /\ b' = decode(b, s).a
       /\ err' = decode(b, s).err
  /\ pc' = "decodedAny"
  /\ UNCHANGED <<call, owner, a, w, data, acct, acctOut>>

\* b.DecodeRLP(s) on any stream, b fresh or holding a decoded Author
CallDecodeRLPAny ==
  /\ pc \in {"start", "read"}
  /\ \E s \in Streams :
       /\ w' = s
       /\ b' = DecodeRLP(b, s).a
       /\ err' = DecodeRLP(b, s).err
       /\ sa' = DecodeRLP(b, s).sa
  /\ pc' = "readAny"
  /\ UNCHANGED <<call, owner, a, data, acct, acctOut>>

\* a.MarshalJSON()
CallMarshalJSON ==
  /\ pc = "constructed"
  /\ data' = MarshalJSON(a).data
  /\ err' = MarshalJSON(a).err
  /\ pc' = "marshalled"
  /\ UNCHANGED <<call, owner, a, sa, w, b, acct, acctOut>>

\* b.UnmarshalJSON(data) on the bytes MarshalJSON returned, b a fresh Author
CallUnmarshalJSON ==
  /\ pc = "marshalled"
  /\ err = ""
  /\ b' = UnmarshalJSON(b, data).a
  /\ err' = UnmarshalJSON(b, data).err
  /\ pc' = "unmarshalled"
  /\ UNCHANGED <<call, owner, a, sa, w, data, acct, acctOut>>

\* an AccountAuthorAction is put together
BuildAccount ==
  /\ pc = "start"
  /\ \E th \in Thresholds, up \in Thresholds, acts \in ActionListsUpTo(MaxActions) :
       acct' = [Threshold |-> th, UpdateAuthorThreshold |-> up, AuthorActions |-> acts]
  /\ pc' = "acctBuilt"
  /\ UNCHANGED <<call, owner, a, sa, w, err, b, data, acctOut>>

\* rlp.EncodeToBytes(&acct)
EncodeAccount ==
  /\ pc = "acctBuilt"
  /\ w' = rlpEncodeAccount(acct).bytes
  /\ err' = rlpEncodeAccount(acct).err
  /\ pc' = "acctEncoded"
  /\ UNCHANGED <<call, owner, a, sa, b, data, acct, acctOut>>

\* rlp.DecodeBytes(w, &acctOut), acctOut a zero AccountAuthorAction
DecodeAccount ==
  /\ pc = "acctEncoded"
  /\ err = ""
  /\ acctOut' = rlpDecodeAccount(w).acct
  /\ err' = rlpDecodeAccount(w).err
  /\ pc' = "acctDecoded"
  /\ UNCHANGED <<call, owner, a, sa, w, b, data, acct>>

Next ==
  \/ CallGenerateOwner
  \/ CallNewAuthor
  \/ CallEncode
  \/ CallDecode
  \/ CallEncodeRLP
  \/ CallDecodeRLP
  \/ CallDecodeAny
  \/ CallDecodeRLPAny
  \/ CallMarshalJSON
  \/ CallUnmarshalJSON
  \/ BuildAccount
  \/ EncodeAccount
  \/ DecodeAccount

Spec == Init /\ [][Next]_vars

(***************************************************************************)
(* The claims.                                                             *)
(***************************************************************************)
KnownOwner(o) == o.variant \in KnownVariants

SameAuthor(x, y) ==
  /\ x.Owner.variant = y.Owner.variant
  /\ x.Owner.val = y.Owner.val
  /\ x.Weight = y.Weight

\* C1: binary round trip.  For an Author whose Owner is a Name, a PubKey or an
\* Address, encode (EncodeRLP) succeeds, and decode (DecodeRLP) of what it
\* produced into a fresh Author succeeds and yields the same variant, the same
\* payload and the same Weight.
C1_BinaryRoundTrip ==
  /\ (pc \in {"encoded", "written"} /\ KnownOwner(a.Owner)) => err = ""
  /\ (pc \in {"decoded", "read"} /\ KnownOwner(a.Owner)) => (err = "" /\ SameAuthor(b, a))

C1_Witness ==
  /\ pc = "decoded"
  /\ a.Owner.variant = "PubKey"
  /\ a.Owner.val # Zeros(PubKeyLength)
  /\ a.Weight = BigWeight
  /\ SameAuthor(b, a)

\* C2: JSON round trip.  For an Author whose Owner is a Name, a PubKey or an
\* Address, UnmarshalJSON of the output of MarshalJSON yields an Author of the
\* same variant, with the same canonical string of the owner and the same
\* Weight.
C2_JSONRoundTrip ==
  (pc = "unmarshalled" /\ KnownOwner(a.Owner)) =>
    /\ err = ""
    /\ b.Owner.variant = a.Owner.variant
    /\ String(b.Owner) = String(a.Owner)
    /\ b.Weight = a.Weight

\* C3: unknown tag rejection.  decode of a StorageAuthor whose Type is none of
\* AccountNameType, PubKeyType, AddressType returns an error, whatever its
\* DataRaw and Weight.
C3_UnknownTagRejected ==
  (pc \in {"decodedAny", "readAny"} /\ sa # <<>>
     /\ sa[1].Type \notin {AccountNameType, PubKeyType, AddressType})
    => err # ""

C3_Witness ==
  /\ pc = "decodedAny"
  /\ sa[1].Type = 3
  /\ sa[1].DataRaw = EncodeToBytes(<<65>>)
  /\ err = "author decode failed"

\* C4: unrecognized variant.  For an Author whose Owner is none of Name, PubKey,
\* Address (a foreign Owner, or the nil Owner), encode returns an error and no
\* StorageAuthor, EncodeRLP returns an error and writes nothing, MarshalJSON
\* returns an error and no bytes.
C4_UnrecognizedVariantFails ==
  /\ (pc = "encoded" /\ ~KnownOwner(a.Owner)) => (err # "" /\ sa = <<>>)
  /\ (pc = "written" /\ ~KnownOwner(a.Owner)) => (err # "" /\ w = <<>>)
  /\ (pc = "marshalled" /\ ~KnownOwner(a.Owner)) => (err # "" /\ data = <<>>)

C4_Witness ==
  /\ pc = "written"
  /\ a.Owner = ForeignOwner
  /\ err = "author encode failed"
  /\ w = <<>>

IsHexDigits(s) == \A i \in 1..Len(s) : fromHexChar(s[i]) <= 15

\* s without its first two characters
DropTwo(s) == SubSeq(s, 3, Len(s))

HexType(at) == at \in {PubKeyType, AddressType}

\* C5: factory hex prefix.  For a string h of hex digits and at PubKeyType or
\* AddressType, GenerateOwner("0x" + h, at) is the Owner GenerateOwner(h, at).
C5_HexPrefixIgnored ==
  (pc = "generated" /\ HexType(call.at) /\ HasPrefix(call.author, Prefix0x)
     /\ IsHexDigits(DropTwo(call.author)))
    => owner = GenerateOwner(DropTwo(call.author), call.at)

C5_Witness ==
  /\ pc = "generated"
  /\ call.author = <<48, 120, 65, 65>>
  /\ call.at = PubKeyType
  /\ owner = PubKey(<<170>>)
  /\ owner = GenerateOwner(<<65, 65>>, PubKeyType)

\* C6: AccountAuthorAction binary round trip.  Encoding succeeds, and decoding
\* yields the same thresholds and a list of the same length with, at each
\* position, the same ActionType and an equal Author; the empty list yields the
\* empty list.
C6_AccountRoundTrip ==
  /\ pc = "acctEncoded" => err = ""
  /\ pc = "acctDecoded" =>
       /\ err = ""
       /\ acctOut.Threshold = acct.Threshold
       /\ acctOut.UpdateAuthorThreshold = acct.UpdateAuthorThreshold
       /\ Len(acctOut.AuthorActions) = Len(acct.AuthorActions)
       /\ \A i \in 1..Len(acct.AuthorActions) :
            /\ acctOut.AuthorActions[i].ActionType = acct.AuthorActions[i].ActionType
            /\ SameAuthor(acctOut.AuthorActions[i].Author, acct.AuthorActions[i].Author)

C6_Witness ==
  /\ pc = "acctDecoded"
  /\ Len(acct.AuthorActions) = 3
  /\ acct.AuthorActions[1].ActionType = AddAuthor
  /\ acct.AuthorActions[2].ActionType = DeleteAuthor
  /\ acct.AuthorActions[3].ActionType = UpdateAuthor
  /\ acct.AuthorActions[1].Author.Owner.variant = "Name"
  /\ acct.AuthorActions[2].Author.Owner.variant = "PubKey"
  /\ acct.AuthorActions[3].Author.Owner.variant = "Address"
  /\ acct.UpdateAuthorThreshold = 0
  /\ acctOut = acct

\* the variant a tag names
VariantOfTag(t) ==
  IF t = AccountNameType THEN "Name"
  ELSE IF t = PubKeyType THEN "PubKey"
  ELSE IF t = AddressType THEN "Address"
  ELSE "none"

\* C7: tag and payload agree.  When decode succeeds, the Owner's variant is the
\* one StorageAuthor.Type names; when encode succeeds, the emitted Type is the
\* tag of the Owner's variant and the emitted Weight is the Author's.
C7_TagMatchesVariant ==
  /\ (pc \in {"decoded", "read", "decodedAny", "readAny"} /\ err = "")
       => (sa # <<>> /\ b.Owner.variant = VariantOfTag(sa[1].Type))
  /\ (pc = "encoded" /\ err = "")
       => (sa # <<>> /\ VariantOfTag(sa[1].Type) = a.Owner.variant
             /\ sa[1].Weight = a.Weight)

C7_Witness ==
  /\ pc = "decodedAny"
  /\ err = ""
  /\ sa[1].Type = AddressType
  /\ b.Owner.variant = "Address"

\* s is valid hex once an optional leading "0x" is removed
ValidHexInput(s) ==
  LET t == IF HasPrefix(s, Prefix0x) THEN DropTwo(s) ELSE s
  IN  Len(t) % 2 = 0 /\ IsHexDigits(t)

\* the longest prefix of t that is a whole number of pairs of hex digits
HexPairsPrefix(t) ==
  LET ok == {n \in 0..Len(t) : n % 2 = 0 /\ IsHexDigits(SubSeq(t, 1, n))}
  IN  SubSeq(t, 1, CHOOSE n \in ok : \A k \in ok : k <= n)

C9_OnlyLeadingPrefixRemoved ==
  (pc = "generated" /\ HexType(call.at))
    => call.hexIn = <<IF HasPrefix(call.author, Prefix0x)
                      THEN DropTwo(call.author) ELSE call.author>>

DecodeStates == {"decoded", "read", "decodedAny", "readAny"}

\* C10: decode is atomic on failure.  A call of decode or DecodeRLP that
\* returns an error leaves the receiver's Owner and Weight as they were.
C10_DecodeAtomicOnFailure ==
  [][(pc' \in DecodeStates /\ err' # "") => b' = b]_vars

C10_Witness ==
  /\ pc = "decodedAny"
  /\ err # ""
  /\ sa[1].Type = PubKeyType
  /\ sa[1].Weight = 0
  /\ b.Owner.variant = "Address"
  /\ b.Weight = BigWeight
====
